---- MODULE Spec2Model ----
(***************************************************************************)
(* ArtifactTransparencyLogVerifier.Verify of pkg/verifier/tlog.go as a     *)
(* state machine.  One call of Verify is a walk of the program counter pc  *)
(* through the statements of the function; the collaborators it calls      *)
(* (the entity's accessors, the Rekor client) answer nondeterministically  *)
(* and every invocation is appended to trace.                              *)
(***************************************************************************)
EXTENDS Integers, Sequences, FiniteSets, TLC

\* ------------------------------------------------------------------ bounds
MaxEntries == 2      \* longest entry sequence of an entity
MaxThreshold == 2    \* largest configured threshold
MaxPayload == 2      \* longest resp.Payload a log query returns
MaxCalls == 2        \* calls of Verify on one verifier (SpecTwice)
MaxEntriesTwice == 1 \* longest entry sequence under SpecTwice

\* ------------------------------------------------------------------ values
\* Log key identifiers are byte strings; the mapping is keyed by their hex form.
KeyIDs == {<<10>>, <<171>>}
Sigs == {<<1>>, <<2>>}
Certs == {"certA", "certB"}
Times == {1, 2}

\* root.TlogVerifier of the log whose hex key identifier is h.
TlogVerifierOf(h) == [BaseURL |-> <<"https://">> \o h, PublicKey |-> <<"pk">> \o h]

HexDigit(n) ==
    CASE n = 0 -> "0" [] n = 1 -> "1" [] n = 2 -> "2" [] n = 3 -> "3"
      [] n = 4 -> "4" [] n = 5 -> "5" [] n = 6 -> "6" [] n = 7 -> "7"
      [] n = 8 -> "8" [] n = 9 -> "9" [] n = 10 -> "a" [] n = 11 -> "b"
      [] n = 12 -> "c" [] n = 13 -> "d" [] n = 14 -> "e" [] n = 15 -> "f"

RECURSIVE EncodeToString(_)
\* hex.EncodeToString: two lower-case hex digits per byte.
EncodeToString(b) ==
    IF b = <<>> THEN <<>>
    ELSE <<HexDigit(Head(b) \div 16), HexDigit(Head(b) % 16)>> \o EncodeToString(Tail(b))

HexIDs == {EncodeToString(k) : k \in KeyIDs}
\* Public keys of the log operators.
Keys == {TlogVerifierOf(h).PublicKey : h \in HexIDs}
\* Maps from hex key identifier to TlogVerifier: of no log, of one log, of
\* every log.
Mappings ==
    {[h \in D |-> TlogVerifierOf(h)] : D \in {{}, {EncodeToString(<<10>>)}, HexIDs}}

\* One claimed transparency-log record carried by the entity.
\*   wellFormed : what tlog.ValidateEntry finds
\*   keyID      : LogKeyID(), the log that issued the signed-entry-timestamp
\*   sig, cert, time : Signature(), Certificate(), IntegratedTime()
\* Verify returns on a malformed entry before it reads any other field of it
\* (lines 53-56), so one malformed entry stands for all of them: the one that
\* would fail every later check as well.
MalformedEntry ==
    [wellFormed |-> FALSE, keyID |-> <<171>>, sig |-> <<2>>, cert |-> "certB", time |-> 1]
TlogEntry ==
    {MalformedEntry}
    \cup {e \in [wellFormed : BOOLEAN, keyID : KeyIDs, sig : Sigs, cert : Certs,
                  time : Times] : e.wellFormed}

\* The public key under which the entry's signed-entry-timestamp validates.
SETKey(e) == TlogVerifierOf(EncodeToString(e.keyID)).PublicKey

\* The entity's own claims: SignatureContent's signature bytes, and the
\* certificate and validity window behind VerificationContent's two predicates.
EntitySig == <<1>>
EntityCert == "certA"
ValidWindow == [notBefore |-> 2, notAfter |-> 2]

\* A record as a log returns it.  valid: rekorVerify.VerifyLogEntry accepts it
\* under the resolved key.  same: it is the record the entity presents.
RemoteLogEntry == [valid : BOOLEAN, same : BOOLEAN]
\* models.LogEntry is a map from UUID to record; only its set of records matters.
LogEntryMaps == SUBSET RemoteLogEntry

SeqsUpTo(S, n) == UNION {[1..k -> S] : k \in 0..n}

\* resp.Payload: k matches.  Verify reads the first match at most (line 94), so
\* the matches of one payload are taken alike.
Payloads == {[j \in 1..k |-> m] : k \in 0..MaxPayload, m \in LogEntryMaps}

\* A SignedEntity: which of its accessors fails to parse ("none": all succeed)
\* and the entries TlogEntries() returns.  With TlogEntries() failing there are
\* no entries; with SignatureContent() or VerificationContent() failing Verify
\* returns before it reads an entry, so those entities differ in length only.
PlainEntry ==
    [wellFormed |-> TRUE, keyID |-> <<10>>, sig |-> <<1>>, cert |-> "certA", time |-> 2]
Entities(n) ==
    {[parse |-> "TlogEntries", entries |-> <<>>]}
    \cup {[parse |-> p, entries |-> [j \in 1..k |-> PlainEntry]] :
             p \in {"SignatureContent", "VerificationContent"}, k \in 0..n}
    \cup {[parse |-> "none", entries |-> es] : es \in SeqsUpTo(TlogEntry, n)}

\* ------------------------------------------------------------------ state
VARIABLES
    trustedRoot,    \* verifier field: the TrustedRoot (its TlogVerifiers() map)
    threshold,      \* verifier field
    online,         \* verifier field
    tlogVerifiers,  \* verifier field: hex key identifier -> TlogVerifier
    entity,         \* the SignedEntity passed to Verify
    cancelled,      \* the caller's cancellation signal: 0 until it expires,
                    \* then the entry whose query was in flight at that time
    pc,             \* position of the running call inside Verify
    i,              \* loop index over entries (1-based)
    logEntry,       \* resp.Payload[0] of the current entry (line 94)
    result,         \* what Verify returned: "OK", an error kind, or "pending"
    trace,          \* collaborator invocations of the running call, in order
    prev            \* what the calls already returned left behind: result and
                    \* trace, or result, error and outcome per entry

fields == <<trustedRoot, threshold, online, tlogVerifiers>>
vars == <<trustedRoot, threshold, online, tlogVerifiers, entity, cancelled, pc, i,
          logEntry, result, trace, prev>>

\* One collaborator invocation: which one, for which entry (0: none), whether it
\* succeeded, how many matches a query returned and which records were at stake.
Event(op, idx, ok, n, recs) == [op |-> op, idx |-> idx, ok |-> ok, n |-> n, recs |-> recs]

Entries == entity.entries
Entry == Entries[i]

Fail(kind) == result' = kind /\ pc' = "done"
Goto(label) == pc' = label /\ UNCHANGED result
Log(ev) == trace' = Append(trace, ev)

\* ------------------------------------------------------------------ checks
\* Mutant of BelowThreshold: an off-by-one gate that lets a bundle one entry
\* short through.
BelowThresholdOffByOne(n) == n + 1 < threshold

\* len(entries) < p.threshold
BelowThreshold(n) == n < threshold

\* tlog.ValidateEntry(entry) returns nil
ValidateEntry(e) == e.wellFormed

\* tlog.VerifySET(entry, verifiers) returns nil: the signed-entry-timestamp
\* validates against any of the verifiers' public keys.
VerifySET(e, verifiers) == \E h \in DOMAIN verifiers : verifiers[h].PublicKey = SETKey(e)

\* Mutant of LookupOK: the ok of the map read is not looked at.
LookupIgnoreOk(e) == TRUE

\* Mutant of LookupOK: the mapped TlogVerifier counts only if its public key
\* is one of the trusted root.
LookupTrustedKey(e) ==
    /\ EncodeToString(e.keyID) \in DOMAIN tlogVerifiers
    /\ tlogVerifiers[EncodeToString(e.keyID)].PublicKey
          \in {trustedRoot[h].PublicKey : h \in DOMAIN trustedRoot}

\* tlogVerifier, ok := p.tlogVerifiers[hex64Key]
LookupOK(e) == EncodeToString(e.keyID) \in DOMAIN tlogVerifiers

\* rekorVerify.VerifyLogEntry returns nil for every record of the map
VerifyLogEntries(m) == \A r \in m : r.valid

\* bytes.Equal(entry.Signature(), entitySignature)
SignatureMatches(e) == e.sig = EntitySig

\* verificationContent.CompareKey(entry.Certificate())
CompareKey(c) == c = EntityCert

\* verificationContent.ValidAtTime(entry.IntegratedTime())
ValidAtTime(t) == ValidWindow.notBefore <= t /\ t <= ValidWindow.notAfter

\* ------------------------------------------------------------------ Verify
\* NewArtifactTransparencyLogVerifier: the four fields are the arguments; the
\* entity is the argument of the calls to come.  The map the mode never reads
\* (tlogVerifiers offline, lines 58-62; trustedRoot online, lines 63-102) is
\* held at the full map.
AllLogs == [h \in HexIDs |-> TlogVerifierOf(h)]
Construct(n) ==
    /\ threshold \in 0..MaxThreshold
    /\ online \in BOOLEAN
    /\ trustedRoot \in Mappings
    /\ tlogVerifiers \in Mappings
    /\ IF online THEN trustedRoot = AllLogs ELSE tlogVerifiers = AllLogs
    /\ entity \in Entities(n)
    /\ cancelled = 0
    /\ pc = "idle"
    /\ i = 1
    /\ logEntry = {}
    /\ result = "pending"
    /\ trace = <<>>
    /\ prev = <<>>

Init == Construct(MaxEntries)

\* Lines 32-50: fetch the entries, the count gate, then the signature content
\* and the verification content.
Begin ==
    /\ pc = "idle"
    /\ IF entity.parse = "TlogEntries"
       THEN /\ trace' = <<Event("TlogEntries", 0, FALSE, 0, {})>>
            /\ Fail("ParseError")
       ELSE IF BelowThreshold(Len(Entries))
       THEN /\ trace' = <<Event("TlogEntries", 0, TRUE, Len(Entries), {})>>
            /\ Fail("InsufficientEvidence")
       ELSE IF entity.parse = "SignatureContent"
       THEN /\ trace' = <<Event("TlogEntries", 0, TRUE, Len(Entries), {}),
                          Event("SignatureContent", 0, FALSE, 0, {})>>
            /\ Fail("ParseError")
       ELSE /\ trace' = <<Event("TlogEntries", 0, TRUE, Len(Entries), {}),
                          Event("SignatureContent", 0, TRUE, 0, {}),
                          Event("VerificationContent", 0,
                                entity.parse # "VerificationContent", 0, {})>>
            /\ IF entity.parse = "VerificationContent" THEN Fail("ParseError")
               ELSE Goto("loop")
    /\ UNCHANGED <<fields, entity, cancelled, i, logEntry, prev>>

\* Mutant of Validate: a malformed entry is skipped and the loop moves on.
ValidateContinue ==
    /\ pc = "loop"
    /\ i <= Len(Entries)
    /\ Log(Event("ValidateEntry", i, ValidateEntry(Entry), 0, {}))
    /\ UNCHANGED result
    /\ IF ValidateEntry(Entry) THEN pc' = "strategy" /\ UNCHANGED i
       ELSE pc' = "loop" /\ i' = i + 1
    /\ UNCHANGED <<fields, entity, cancelled, logEntry, prev>>

\* Mutant of Validate: the error of ValidateEntry is dropped and the entry is
\* dispatched to its strategy.
ValidateIgnoreErr ==
    /\ pc = "loop"
    /\ i <= Len(Entries)
    /\ Log(Event("ValidateEntry", i, ValidateEntry(Entry), 0, {}))
    /\ Goto("strategy")
    /\ UNCHANGED <<fields, entity, cancelled, i, logEntry, prev>>

\* Lines 52-56: the next entry, structurally validated.
Validate ==
    /\ pc = "loop"
    /\ i <= Len(Entries)
    /\ Log(Event("ValidateEntry", i, ValidateEntry(Entry), 0, {}))
    /\ IF ValidateEntry(Entry) THEN Goto("strategy") ELSE Fail("MalformedEntry")
    /\ UNCHANGED <<fields, entity, cancelled, i, logEntry, prev>>

\* Mutant of Offline: the error of VerifySET is dropped.
OfflineIgnoreErr ==
    /\ pc = "strategy"
    /\ ~online
    /\ Log(Event("VerifySET", i, VerifySET(Entry, trustedRoot), 0, {}))
    /\ Goto("signature")
    /\ UNCHANGED <<fields, entity, cancelled, i, logEntry, prev>>

\* Lines 58-62: offline, the signed-entry-timestamp against the trusted root.
Offline ==
    /\ pc = "strategy"
    /\ ~online
    /\ Log(Event("VerifySET", i, VerifySET(Entry, trustedRoot), 0, {}))
    /\ IF VerifySET(Entry, trustedRoot) THEN Goto("signature")
       ELSE Fail("UntrustedLogSignature")
    /\ UNCHANGED <<fields, entity, cancelled, i, logEntry, prev>>

\* Lines 63-69: online, the TlogVerifier of the entry's hex key identifier.
Lookup ==
    /\ pc = "strategy"
    /\ online
    /\ Log(Event("Lookup", i, LookupOK(Entry), 0, {}))
    /\ IF LookupOK(Entry) THEN Goto("resolve") ELSE Fail("UnknownLogIdentifier")
    /\ UNCHANGED <<fields, entity, cancelled, i, logEntry, prev>>

\* The base URL of the TlogVerifier mapped to the entry's key identifier.
BaseURLOf(e) == tlogVerifiers[EncodeToString(e.keyID)].BaseURL

\* Mutant of Resolve: a log that cannot be resolved makes the entry fall back
\* to the offline check.
ResolveFallback ==
    /\ pc = "resolve"
    /\ \E ok \in BOOLEAN :
         IF ok
         THEN /\ Log(Event("getRekorClient", i, TRUE, 0, {BaseURLOf(Entry)}))
              /\ Goto("query")
         ELSE /\ trace' = trace \o <<Event("getRekorClient", i, FALSE, 0, {BaseURLOf(Entry)}),
                                     Event("VerifySET", i, VerifySET(Entry, trustedRoot), 0, {})>>
              /\ IF VerifySET(Entry, trustedRoot) THEN Goto("signature")
                 ELSE Fail("UntrustedLogSignature")
    /\ UNCHANGED <<fields, entity, cancelled, i, logEntry, prev>>

\* Lines 71-74 and getRekorClient: a client and the log's current public key
\* from the base URL, which the event records; every step of it may fail.
Resolve ==
    /\ pc = "resolve"
    /\ \E ok \in BOOLEAN :
         /\ Log(Event("getRekorClient", i, ok, 0, {BaseURLOf(Entry)}))
         /\ IF ok THEN Goto("query") ELSE Fail("LogUnavailable")
    /\ UNCHANGED <<fields, entity, cancelled, i, logEntry, prev>>

\* Mutant of Query: a query that failed at the transport is issued once more.
QueryRetry ==
    /\ pc = "query"
    /\ \/ /\ Log(Event("SearchLogQuery", i, FALSE, 0, {}))
          /\ IF trace[Len(trace)].op = "SearchLogQuery" THEN Fail("LogQueryFailed")
             ELSE Goto("query")
          /\ UNCHANGED logEntry
       \/ \E payload \in Payloads :
            /\ Log(Event("SearchLogQuery", i, TRUE, Len(payload), {}))
            /\ IF Len(payload) = 1
               THEN /\ logEntry' = payload[1]
                    /\ Goto("remote")
               ELSE /\ Fail(IF Len(payload) = 0 THEN "LogEntryNotFound"
                            ELSE "AmbiguousLogEntry")
                    /\ UNCHANGED logEntry
    /\ UNCHANGED <<fields, entity, cancelled, i, prev>>

\* Mutant of PayloadVerdict: several matches are resolved by taking the first.
PayloadVerdictPickFirst(payload) ==
    IF Len(payload) = 0 THEN "LogEntryNotFound" ELSE "one"

\* len(resp.Payload) == 0 / > 1 / else
PayloadVerdict(payload) ==
    IF Len(payload) = 0 THEN "LogEntryNotFound"
    ELSE IF Len(payload) > 1 THEN "AmbiguousLogEntry"
    ELSE "one"

\* Lines 76-94: the query by log index and the count of what it returns.
Query ==
    /\ pc = "query"
    /\ \/ /\ Log(Event("SearchLogQuery", i, FALSE, 0, {}))
          /\ Fail("LogQueryFailed")
          /\ UNCHANGED logEntry
       \/ \E payload \in Payloads :
            /\ Log(Event("SearchLogQuery", i, TRUE, Len(payload), {}))
            /\ IF PayloadVerdict(payload) = "one"
               THEN /\ logEntry' = payload[1]
                    /\ Goto("remote")
               ELSE /\ Fail(PayloadVerdict(payload))
                    /\ UNCHANGED logEntry
    /\ UNCHANGED <<fields, entity, cancelled, i, prev>>

\* Mutant of Remote: a failed verification is reported as a failed query.
RemoteWrongKind ==
    /\ pc = "remote"
    /\ Log(Event("VerifyLogEntry", i, VerifyLogEntries(logEntry), 1, logEntry))
    /\ IF VerifyLogEntries(logEntry) THEN Goto("signature")
       ELSE Fail("LogQueryFailed")
    /\ UNCHANGED <<fields, entity, cancelled, i, logEntry, prev>>

\* Lines 96-102: every record of the fetched map against the resolved key.
Remote ==
    /\ pc = "remote"
    /\ Log(Event("VerifyLogEntry", i, VerifyLogEntries(logEntry), 1, logEntry))
    /\ IF VerifyLogEntries(logEntry) THEN Goto("signature")
       ELSE Fail("LogEntryVerificationFailed")
    /\ UNCHANGED <<fields, entity, cancelled, i, logEntry, prev>>

\* Mutant of Signature: the comparison is made and its outcome dropped.
SignatureSkip ==
    /\ pc = "signature"
    /\ Log(Event("bytes.Equal", i, SignatureMatches(Entry), 0, {}))
    /\ Goto("certificate")
    /\ UNCHANGED <<fields, entity, cancelled, i, logEntry, prev>>

\* Mutant of Signature: the certificate is compared ahead of the signature.
SignatureAfterCertificate ==
    /\ pc = "signature"
    /\ IF ~CompareKey(Entry.cert)
       THEN /\ Log(Event("CompareKey", i, FALSE, 0, {}))
            /\ Fail("CertificateMismatch")
       ELSE /\ Log(Event("bytes.Equal", i, SignatureMatches(Entry), 0, {}))
            /\ IF SignatureMatches(Entry) THEN Goto("certificate")
               ELSE Fail("SignatureMismatch")
    /\ UNCHANGED <<fields, entity, cancelled, i, logEntry, prev>>

\* Lines 105-108.
Signature ==
    /\ pc = "signature"
    /\ Log(Event("bytes.Equal", i, SignatureMatches(Entry), 0, {}))
    /\ IF SignatureMatches(Entry) THEN Goto("certificate") ELSE Fail("SignatureMismatch")
    /\ UNCHANGED <<fields, entity, cancelled, i, logEntry, prev>>

\* Mutant of Certificate: the comparison is made and its outcome dropped.
CertificateSkip ==
    /\ pc = "certificate"
    /\ Log(Event("CompareKey", i, CompareKey(Entry.cert), 0, {}))
    /\ Goto("time")
    /\ UNCHANGED <<fields, entity, cancelled, i, logEntry, prev>>

\* Lines 110-113.
Certificate ==
    /\ pc = "certificate"
    /\ Log(Event("CompareKey", i, CompareKey(Entry.cert), 0, {}))
    /\ IF CompareKey(Entry.cert) THEN Goto("time") ELSE Fail("CertificateMismatch")
    /\ UNCHANGED <<fields, entity, cancelled, i, logEntry, prev>>

\* Mutant of Time: the predicate is asked and its answer dropped.
TimeSkip ==
    /\ pc = "time"
    /\ Log(Event("ValidAtTime", i, ValidAtTime(Entry.time), 0, {}))
    /\ Goto("loop")
    /\ i' = i + 1
    /\ UNCHANGED <<fields, entity, cancelled, logEntry, prev>>

\* Lines 117-121: the last check of an entry; the loop moves on.
Time ==
    /\ pc = "time"
    /\ Log(Event("ValidAtTime", i, ValidAtTime(Entry.time), 0, {}))
    /\ IF ValidAtTime(Entry.time)
       THEN /\ Goto("loop")
            /\ i' = i + 1
       ELSE /\ Fail("TimeOutOfRange")
            /\ UNCHANGED i
    /\ UNCHANGED <<fields, entity, cancelled, logEntry, prev>>

\* Mutant of Return: n-of-m, the call succeeds as soon as threshold entries
\* have passed.
ReturnAtThreshold ==
    /\ pc = "loop"
    /\ i > threshold
    /\ Fail("OK")
    /\ UNCHANGED <<fields, entity, cancelled, i, logEntry, trace, prev>>

\* Line 123: the loop is over.
Return ==
    /\ pc = "loop"
    /\ i > Len(Entries)
    /\ Fail("OK")
    /\ UNCHANGED <<fields, entity, cancelled, i, logEntry, trace, prev>>

Next ==
    \/ Begin \/ Validate \/ Offline \/ Lookup \/ Resolve
    \/ Query \/ Remote \/ Signature \/ Certificate \/ Time \/ Return

Spec == Init /\ [][Next]_vars

\* Mutant of CallAgain: the loop index survives the call, as it would if it
\* were kept on the verifier.
CallAgainStale ==
    /\ pc = "done"
    /\ Len(prev) < MaxCalls - 1
    /\ prev' = Append(prev, [result |-> result, trace |-> trace, fields |-> fields])
    /\ pc' = "idle"
    /\ logEntry' = {}
    /\ result' = "pending"
    /\ trace' = <<>>
    /\ UNCHANGED <<fields, entity, cancelled, i>>

\* Line 31 again: the caller calls Verify once more on the same verifier with
\* the same entity.  The locals of the function start afresh; what the call
\* before returned is remembered in prev for comparison only.
CallAgain ==
    /\ pc = "done"
    /\ Len(prev) < MaxCalls - 1
    /\ prev' = Append(prev, [result |-> result, trace |-> trace, fields |-> fields])
    /\ pc' = "idle"
    /\ i' = 1
    /\ logEntry' = {}
    /\ result' = "pending"
    /\ trace' = <<>>
    /\ UNCHANGED <<fields, entity, cancelled>>

InitTwice == Construct(MaxEntriesTwice)
NextTwice == Next \/ CallAgain
SpecTwice == InitTwice /\ [][NextTwice]_vars

\* The caller gives up while the query of the current entry is in flight.
\* Verify takes the entity only (line 31), the query parameters carry no
\* context of the caller (lines 78-83) and the remote verification runs under
\* context.TODO() (line 98): the signal reaches nothing inside Verify.
Cancel ==
    /\ pc = "query"
    /\ cancelled = 0
    /\ cancelled' = i
    /\ UNCHANGED <<fields, entity, pc, i, logEntry, result, trace, prev>>

InitCancel == Construct(MaxEntriesTwice)
NextCancel == Next \/ Cancel
SpecCancel == InitCancel /\ [][NextCancel]_vars

\* The error value Verify returns, nil being <<>>.  An error composed in Verify
\* is its format string with the arguments of lines 37, 68 and 89 (the log
\* index is an attribute of the entry); an error handed through from a
\* collaborator (lines 34, 42, 49, 55, 61, 73, 85, 100) can tell what the
\* collaborator was given and nothing else.
ErrorValue ==
    CASE result = "ParseError" -> <<"error of the entity's accessor">>
      [] result = "InsufficientEvidence" ->
            <<"not enough transparency log entries: %d < %d", Len(Entries), threshold>>
      [] result = "MalformedEntry" -> <<"error of tlog.ValidateEntry", Entry>>
      [] result = "UntrustedLogSignature" -> <<"error of tlog.VerifySET", Entry>>
      [] result = "UnknownLogIdentifier" ->
            <<"unable to find tlog information for key %s", EncodeToString(Entry.keyID)>>
      [] result = "LogUnavailable" ->
            <<"error of getRekorClient", BaseURLOf(Entry)>>
      [] result = "LogQueryFailed" -> <<"error of SearchLogQuery", Entry>>
      [] result = "LogEntryNotFound" -> <<"unable to locate log entry %d", Entry>>
      [] result = "AmbiguousLogEntry" -> <<"too many log entries returned">>
      [] result = "LogEntryVerificationFailed" ->
            <<"error of rekorVerify.VerifyLogEntry", CHOOSE r \in logEntry : ~r.valid>>
      [] result = "SignatureMismatch" -> <<"transparency log signature does not match">>
      [] result = "CertificateMismatch" -> <<"transparency log certificate does not match">>
      [] result = "TimeOutOfRange" -> <<"Integrated time outside certificate validity">>
      [] OTHER -> <<>>

\* The position of the entry the call failed on; 0 when it failed on none.
FailedAt ==
    IF pc = "done" /\ result # "OK" THEN trace[Len(trace)].idx ELSE 0

\* How entry j fared in the call: not reached, passed, rejected by the log
\* steps (resolution, query, remote verification), or rejected by a check
\* that asks no log.
LogFailures ==
    {"LogUnavailable", "LogQueryFailed", "LogEntryNotFound", "AmbiguousLogEntry",
     "LogEntryVerificationFailed"}
Outcome(j) ==
    IF \A k \in 1..Len(trace) : trace[k].idx # j THEN "unreached"
    ELSE IF FailedAt # j THEN "pass"
    ELSE IF result \in LogFailures THEN "logfail"
    ELSE "fail"

\* Line 31 again, with the entries of the entity in another order: the caller
\* calls Verify on the same verifier with a permutation of the entity.  What
\* the call before returned is remembered in prev, entry by entry under the
\* positions of the permuted entity, for comparison only.
CallPermuted ==
    /\ pc = "done"
    /\ Len(prev) < MaxCalls - 1
    /\ \E p \in Permutations(1..Len(Entries)) :
         /\ entity' = [entity EXCEPT !.entries = [j \in 1..Len(Entries) |-> Entries[p[j]]]]
         /\ prev' = Append(prev, [result |-> result, error |-> ErrorValue,
                                  at |-> FailedAt,
                                  outcome |-> [j \in 1..Len(Entries) |-> Outcome(p[j])]])
    /\ pc' = "idle"
    /\ i' = 1
    /\ logEntry' = {}
    /\ result' = "pending"
    /\ trace' = <<>>
    /\ UNCHANGED <<fields, cancelled>>

InitPermuted == Construct(MaxEntries)
NextPermuted == Next \/ CallPermuted
SpecPermuted == InitPermuted /\ [][NextPermuted]_vars

\* Key material that belongs to no log.
RotatedKey == <<"pk", "rotated">>
\* The map m with every public key replaced by pk; the base URLs stay.
WithKey(m, pk) == [h \in DOMAIN m |-> [m[h] EXCEPT !.PublicKey = pk]]

\* Lines 126-133 and 31 again: the caller constructs a second online verifier
\* that differs from the first in key material only (another trusted root,
\* other public keys in the mapped TlogVerifiers, same key identifiers and
\* base URLs, same threshold) and calls Verify on it with the same entity.
\* What the first verifier returned is remembered in prev for comparison only.
CallRekeyed ==
    /\ pc = "done"
    /\ online
    /\ prev = <<>>
    /\ prev' = <<[result |-> result, trace |-> trace, fields |-> fields]>>
    /\ trustedRoot' \in Mappings \cup {WithKey(AllLogs, RotatedKey)}
    /\ tlogVerifiers' \in {tlogVerifiers, WithKey(tlogVerifiers, RotatedKey)}
    /\ <<trustedRoot', tlogVerifiers'>> # <<trustedRoot, tlogVerifiers>>
    /\ pc' = "idle"
    /\ i' = 1
    /\ logEntry' = {}
    /\ result' = "pending"
    /\ trace' = <<>>
    /\ UNCHANGED <<threshold, online, entity, cancelled>>

InitRekeyed == Construct(MaxEntriesTwice)
NextRekeyed == Next \/ CallRekeyed
SpecRekeyed == InitRekeyed /\ [][NextRekeyed]_vars

\* ------------------------------------------------------------------ vocabulary
Done == pc = "done"
Positions == 1..Len(Entries)

\* The call invoked collaborator op for entry j (and it answered ok).
Invoked(op, j) == \E k \in 1..Len(trace) : trace[k].op = op /\ trace[k].idx = j
Succeeded(op, j) ==
    \E k \in 1..Len(trace) : trace[k].op = op /\ trace[k].idx = j /\ trace[k].ok

\* Work on an entry: validation, the strategy's steps, the cross-checks.
StrategyOps == {"VerifySET", "Lookup", "getRekorClient", "SearchLogQuery", "VerifyLogEntry"}
EntryOps == {"ValidateEntry"} \cup StrategyOps \cup {"bytes.Equal", "CompareKey", "ValidAtTime"}
NoEntryWork == \A k \in 1..Len(trace) : trace[k].op \notin EntryOps

\* Entry j passed the strategy check of the configured mode: offline its
\* signed-entry-timestamp validates under a key of the trusted root; online
\* its key identifier was mapped, the log resolved, the query returned exactly
\* one match and every record of that match verified.
StrategyPassed(j) ==
    IF online
    THEN /\ EncodeToString(Entries[j].keyID) \in DOMAIN tlogVerifiers
         /\ Succeeded("getRekorClient", j)
         /\ \E k \in 1..Len(trace) :
               /\ trace[k].op = "SearchLogQuery" /\ trace[k].idx = j
               /\ trace[k].ok /\ trace[k].n = 1
         /\ \E k \in 1..Len(trace) :
               /\ trace[k].op = "VerifyLogEntry" /\ trace[k].idx = j
               /\ \A r \in trace[k].recs : r.valid
    ELSE \E h \in DOMAIN trustedRoot : trustedRoot[h].PublicKey = SETKey(Entries[j])

SigOK(j) == Entries[j].sig = EntitySig
CertOK(j) == Entries[j].cert = EntityCert
TimeOK(j) ==
    ValidWindow.notBefore <= Entries[j].time /\ Entries[j].time <= ValidWindow.notAfter

\* Entry j passes every check.
EntryPasses(j) ==
    Entries[j].wellFormed /\ StrategyPassed(j) /\ SigOK(j) /\ CertOK(j) /\ TimeOK(j)

\* The loop reached entry j: its structural validation was invoked.
Reached(j) == Invoked("ValidateEntry", j)

\* ------------------------------------------------------------------ C1
\* C1: an entity whose TlogEntries() returns fewer entries than the threshold
\* makes Verify return InsufficientEvidence straight from the count gate: the
\* call is never found anywhere else inside Verify, and when it has returned no
\* validation, signed-entry-timestamp check, lookup, resolution, query, remote
\* verification or cross-check was invoked, whatever the entries are.
C1_CountGate ==
    (entity.parse # "TlogEntries" /\ Len(Entries) < threshold)
        => /\ pc \in {"idle", "done"}
           /\ Done => (result = "InsufficientEvidence" /\ NoEntryWork)

\* An entity one entry short, that entry malformed, rejected for its count alone.
C1_Witness ==
    /\ Done /\ result = "InsufficientEvidence"
    /\ Len(Entries) = 1 /\ threshold = 2
    /\ ~Entries[1].wellFormed

C3_FetchedIsPresented ==
    (online /\ Done /\ result = "OK")
        => \A j \in Positions :
             \E k \in 1..Len(trace) :
                /\ trace[k].op = "VerifyLogEntry" /\ trace[k].idx = j
                /\ \A r \in trace[k].recs : r.same

\* ------------------------------------------------------------------ C4
\* C4: a log query that succeeded at the transport level with zero matches
\* ends the call with LogEntryNotFound, with two or more matches with
\* AmbiguousLogEntry; the query is the last thing the call did, and no match
\* was handed to remote verification for that entry.
C4_NoArbitraryPick ==
    \A k \in 1..Len(trace) :
        (trace[k].op = "SearchLogQuery" /\ trace[k].ok /\ trace[k].n # 1)
            => /\ Done /\ k = Len(trace)
               /\ result = IF trace[k].n = 0 THEN "LogEntryNotFound"
                            ELSE "AmbiguousLogEntry"
               /\ ~Invoked("VerifyLogEntry", trace[k].idx)

\* The second entry's query returned two matches.
C4_Witness ==
    /\ Done /\ result = "AmbiguousLogEntry" /\ i = 2
    /\ trace[Len(trace)].op = "SearchLogQuery" /\ trace[Len(trace)].n >= 2

\* ------------------------------------------------------------------ C5
\* C5: online, once the mapping has been consulted for an entry whose hex key
\* identifier is not one of its keys, the call has returned
\* UnknownLogIdentifier and neither a resolution nor a query was issued for
\* that entry.
C5_UnknownLogIdentifier ==
    \A j \in Positions :
        (online /\ Invoked("Lookup", j)
                /\ EncodeToString(Entries[j].keyID) \notin DOMAIN tlogVerifiers)
            => /\ Done /\ result = "UnknownLogIdentifier"
               /\ ~Invoked("getRekorClient", j)
               /\ ~Invoked("SearchLogQuery", j)

\* The mapping knows one log and the second entry names the other.
C5_Witness ==
    /\ online /\ Done /\ result = "UnknownLogIdentifier" /\ i = 2
    /\ Invoked("SearchLogQuery", 1)

\* ------------------------------------------------------------------ C6
\* C6: offline, for a structurally valid entry past its strategy step: if no
\* key of the trusted root validates its signed-entry-timestamp the call has
\* returned UntrustedLogSignature without cross-checking the entry; if some
\* key does, the entry is at, or went through, the signature cross-check.
C6_OfflineStrategy ==
    \A j \in Positions :
        (~online /\ Reached(j) /\ Entries[j].wellFormed /\ ~(i = j /\ pc = "strategy"))
            => IF \E h \in DOMAIN trustedRoot :
                     trustedRoot[h].PublicKey = SETKey(Entries[j])
               THEN (i = j /\ pc = "signature") \/ Invoked("bytes.Equal", j)
               ELSE /\ Done /\ result = "UntrustedLogSignature"
                    /\ ~Invoked("bytes.Equal", j)

\* A root of two keys; the entry's timestamp validates against the second one
\* only, and the entry went on to the cross-checks.
C6_Witness ==
    /\ ~online /\ Cardinality(DOMAIN trustedRoot) = 2
    /\ \E j \in Positions :
          /\ Entries[j].keyID = <<171>>
          /\ Succeeded("VerifySET", j)
          /\ Invoked("bytes.Equal", j)

\* ------------------------------------------------------------------ C7
\* C7: once the signature comparison of an entry was reached and the entry's
\* signature bytes differ from the entity's, the call has returned
\* SignatureMismatch, whatever the other entries are.
C7_SignatureMismatch ==
    \A j \in Positions :
        (Invoked("bytes.Equal", j) /\ Entries[j].sig # EntitySig)
            => (Done /\ result = "SignatureMismatch")

\* The mismatching entry is the last of two.
C7_Witness ==
    /\ Done /\ result = "SignatureMismatch"
    /\ Len(Entries) = 2 /\ i = 2 /\ Entries[2].sig # EntitySig

\* ------------------------------------------------------------------ C8
\* C8: once the validity predicate was asked about an entry whose integrated
\* time lies outside the window, the call has returned TimeOutOfRange.
C8_TimeOutOfRange ==
    \A j \in Positions :
        (Invoked("ValidAtTime", j) /\ ~TimeOK(j))
            => (Done /\ result = "TimeOutOfRange")

\* The entry out of range is the last of two.
C8_Witness ==
    /\ Done /\ result = "TimeOutOfRange"
    /\ Len(Entries) = 2 /\ i = 2 /\ ~TimeOK(2)

\* ------------------------------------------------------------------ C9
\* The collaborators gave the same answer to every invocation that two calls
\* have in common.
SameAnswers(t1, t2) ==
    \A n \in 1..(IF Len(t1) < Len(t2) THEN Len(t1) ELSE Len(t2)) : t1[n] = t2[n]

\* C9 as stated: a later call on the same verifier and entity returns what the
\* earlier call returned.
C9_Original ==
    (Done /\ Len(prev) >= 1) => result = prev[1].result

\* C9 amended: a later call whose collaborators answer as they answered the
\* earlier call returns the same result after the same invocations (offline
\* there is nothing to answer differently); and no step of Verify changes a
\* field of the verifier.
C9_Idempotent ==
    /\ [](\A k \in 1..Len(prev) :
            /\ prev[k].fields = fields
            /\ (Done /\ SameAnswers(prev[k].trace, trace))
                  => (result = prev[k].result /\ trace = prev[k].trace))
    /\ [][fields' = fields]_vars

\* Two online calls on a one-entry entity, both successful.
C9_Witness ==
    /\ online /\ Done /\ Len(prev) = 1 /\ Len(Entries) = 1
    /\ result = "OK" /\ prev[1].result = "OK"

\* ------------------------------------------------------------------ C10
TaxonomyKinds ==
    {"InsufficientEvidence", "MalformedEntry", "UntrustedLogSignature",
     "UnknownLogIdentifier", "LogUnavailable", "LogQueryFailed", "LogEntryNotFound",
     "AmbiguousLogEntry", "LogEntryVerificationFailed", "SignatureMismatch",
     "CertificateMismatch", "TimeOutOfRange"}

\* The outcome that the last thing a call did stands for: each failure
\* condition has a kind of its own.
KindOf(ev) ==
    CASE ev.op = "TlogEntries" -> IF ev.ok THEN "InsufficientEvidence" ELSE "ParseError"
      [] ev.op = "SearchLogQuery" ->
            IF ~ev.ok THEN "LogQueryFailed"
            ELSE IF ev.n = 0 THEN "LogEntryNotFound"
            ELSE IF ev.n > 1 THEN "AmbiguousLogEntry"
            ELSE "OK"
      [] ev.ok -> "OK"
      [] ev.op \in {"SignatureContent", "VerificationContent"} -> "ParseError"
      [] ev.op = "ValidateEntry" -> "MalformedEntry"
      [] ev.op = "VerifySET" -> "UntrustedLogSignature"
      [] ev.op = "Lookup" -> "UnknownLogIdentifier"
      [] ev.op = "getRekorClient" -> "LogUnavailable"
      [] ev.op = "VerifyLogEntry" -> "LogEntryVerificationFailed"
      [] ev.op = "bytes.Equal" -> "SignatureMismatch"
      [] ev.op = "CompareKey" -> "CertificateMismatch"
      [] ev.op = "ValidAtTime" -> "TimeOutOfRange"

C11_CancelFailsQuery ==
    cancelled # 0 =>
        \/ pc = "query" /\ i = cancelled
        \/ /\ Done /\ result = "LogQueryFailed" /\ i = cancelled
           /\ trace[Len(trace)].op = "SearchLogQuery" /\ ~trace[Len(trace)].ok

\* ------------------------------------------------------------------ C12
\* C12: online, an entry whose signature cross-check was evaluated had its key
\* identifier found in the mapping, its log resolved, its query answered with
\* exactly one match, and a record of that match verified under the resolved
\* key: some record was verified for it, and none failed.
C12_VerifiedBeforeCrossChecks ==
    \A j \in Positions :
        (online /\ Invoked("bytes.Equal", j))
            => /\ Succeeded("Lookup", j)
               /\ Succeeded("getRekorClient", j)
               /\ \E k \in 1..Len(trace) :
                     /\ trace[k].op = "SearchLogQuery" /\ trace[k].idx = j
                     /\ trace[k].ok /\ trace[k].n = 1
               /\ \E k \in 1..Len(trace) :
                     /\ trace[k].op = "VerifyLogEntry" /\ trace[k].idx = j
                     /\ trace[k].recs # {}
                     /\ \A r \in trace[k].recs : r.valid

\* ------------------------------------------------------------------ C13
\* C13: entries are worked on in the order of the entity; work on an entry
\* starts only when every entry before it passed every check; and an
\* invocation that fails for an entry is the last thing the call did: the call
\* has returned the kind of that failure, the entry does not pass, and nothing
\* was invoked for a later entry.
C13_FirstFailureAborts ==
    /\ \A k \in 1..(Len(trace) - 1) : trace[k].idx <= trace[k + 1].idx
    /\ \A k \in 1..Len(trace) :
          \A m \in 1..(trace[k].idx - 1) : EntryPasses(m)
    /\ \A k \in 1..Len(trace) :
          (trace[k].idx > 0 /\ KindOf(trace[k]) # "OK")
              => /\ Done /\ k = Len(trace)
                 /\ result = KindOf(trace[k])
                 /\ ~EntryPasses(trace[k].idx)

\* Two defective entries: the call returned the error of the first, and the
\* second, malformed, was never validated.
C13_Witness ==
    /\ Done /\ Len(Entries) = 2 /\ result = "TimeOutOfRange"
    /\ ~TimeOK(1) /\ ~Entries[2].wellFormed
    /\ ~Invoked("ValidateEntry", 2)

\* ------------------------------------------------------------------ C14
\* The strategy check of entry j succeeded.
StrategyDone(j) ==
    IF online THEN Succeeded("VerifyLogEntry", j) ELSE Succeeded("VerifySET", j)

\* C14: the signature comparison of an entry directly follows its successful
\* strategy check, the certificate comparison a matching signature, the time
\* predicate a matching certificate.  Once the cross-checks of an entry whose
\* strategy check succeeded are over, the first of the three that the entry
\* fails is the error the call returned and the later ones were not
\* evaluated: SignatureMismatch whatever the certificate and the time,
\* CertificateMismatch when the signature matches, whatever the time, and
\* TimeOutOfRange only when signature and certificate both match.
C14_CrossCheckOrder ==
    /\ \A k \in 1..Len(trace) :
          /\ trace[k].op = "bytes.Equal"
                => /\ trace[k - 1].op \in {"VerifySET", "VerifyLogEntry"}
                   /\ trace[k - 1].idx = trace[k].idx /\ trace[k - 1].ok
          /\ trace[k].op = "CompareKey"
                => /\ trace[k - 1].op = "bytes.Equal"
                   /\ trace[k - 1].idx = trace[k].idx /\ trace[k - 1].ok
          /\ trace[k].op = "ValidAtTime"
                => /\ trace[k - 1].op = "CompareKey"
                   /\ trace[k - 1].idx = trace[k].idx /\ trace[k - 1].ok
    /\ \A j \in Positions :
          (StrategyDone(j) /\ ~(i = j /\ pc \in {"signature", "certificate", "time"}))
              => /\ ~SigOK(j)
                      => /\ Done /\ result = "SignatureMismatch"
                         /\ ~Invoked("CompareKey", j) /\ ~Invoked("ValidAtTime", j)
                 /\ (SigOK(j) /\ ~CertOK(j))
                      => /\ Done /\ result = "CertificateMismatch"
                         /\ ~Invoked("ValidAtTime", j)
                 /\ (SigOK(j) /\ CertOK(j) /\ ~TimeOK(j))
                      => (Done /\ result = "TimeOutOfRange")
    /\ (Done /\ result = "TimeOutOfRange") => (SigOK(i) /\ CertOK(i))

\* An entry that fails both the signature and the certificate match was
\* rejected for its signature.
C14_Witness ==
    /\ Done /\ result = "SignatureMismatch"
    /\ StrategyDone(i) /\ ~SigOK(i) /\ ~CertOK(i) /\ ~TimeOK(i)

\* ------------------------------------------------------------------ C15
\* C15: in both modes, nothing but structural validation is ever invoked for
\* a structurally defective entry: no signed-entry-timestamp check, mapping
\* lookup, resolution, query, remote verification or cross-check; and once
\* its validation was invoked the call has returned MalformedEntry, the failed
\* validation being the last thing it did.
C15_MalformedBeforeDispatch ==
    \A j \in Positions :
        ~Entries[j].wellFormed
            => /\ \A op \in EntryOps \ {"ValidateEntry"} : ~Invoked(op, j)
               /\ Reached(j)
                    => /\ Done /\ result = "MalformedEntry"
                       /\ trace[Len(trace)].op = "ValidateEntry"
                       /\ trace[Len(trace)].idx = j

\* Online, the second entry is defective; the first went through the log.
C15_Witness ==
    /\ online /\ Done /\ result = "MalformedEntry" /\ i = 2
    /\ ~Entries[2].wellFormed
    /\ Invoked("SearchLogQuery", 1)

\* ------------------------------------------------------------------ C16
OnlineOps == {"Lookup", "getRekorClient", "SearchLogQuery", "VerifyLogEntry"}

\* C16: no step of Verify changes the mode of the verifier; an offline
\* verifier never looks up the mapping, resolves a log, queries a log or
\* verifies a fetched record, and an online verifier never checks a
\* signed-entry-timestamp, for any entry, also after an online step failed.
C16_ModeExclusive ==
    /\ [](\A k \in 1..Len(trace) :
            /\ trace[k].op \in OnlineOps => online
            /\ trace[k].op = "VerifySET" => ~online)
    /\ [][online' = online]_vars

\* The log of the second entry could not be resolved, after the first entry
\* went through every online step.
C16_Witness ==
    /\ online /\ Done /\ result = "LogUnavailable" /\ i = 2
    /\ Succeeded("VerifyLogEntry", 1)

\* ------------------------------------------------------------------ C18
\* How many times the call invoked collaborator op for entry j.
Count(op, j) ==
    Cardinality({k \in 1..Len(trace) : trace[k].op = op /\ trace[k].idx = j})

\* C18: within one call every entry has at most one resolution and at most one
\* query; a query directly follows the successful resolution of the same
\* entry, so none is issued after a failed resolution; and a failed resolution
\* or a failed query is the last thing the call did, which has returned
\* LogUnavailable or LogQueryFailed.
C18_NoRetry ==
    /\ \A j \in Positions :
          Count("getRekorClient", j) <= 1 /\ Count("SearchLogQuery", j) <= 1
    /\ \A k \in 1..Len(trace) :
          /\ trace[k].op = "SearchLogQuery"
                => /\ trace[k - 1].op = "getRekorClient"
                   /\ trace[k - 1].idx = trace[k].idx /\ trace[k - 1].ok
          /\ (trace[k].op = "getRekorClient" /\ ~trace[k].ok)
                => (Done /\ k = Len(trace) /\ result = "LogUnavailable")
          /\ (trace[k].op = "SearchLogQuery" /\ ~trace[k].ok)
                => (Done /\ k = Len(trace) /\ result = "LogQueryFailed")

\* The query of the second entry failed at the transport.
C18_Witness ==
    /\ Done /\ result = "LogQueryFailed" /\ i = 2
    /\ Count("SearchLogQuery", 1) = 1 /\ Count("SearchLogQuery", 2) = 1

\* ------------------------------------------------------------------ C17
\* C17: two calls on entities with the same entries that failed the same
\* check at different positions returned different errors.
C17_ErrorIdentifiesEntry ==
    (Done /\ Len(prev) >= 1 /\ FailedAt # 0 /\ prev[1].at # 0
          /\ result = prev[1].result /\ FailedAt # prev[1].at)
        => ErrorValue # prev[1].error

\* ------------------------------------------------------------------ C19
\* C19 as stated: a call on a permutation of the entity succeeded exactly
\* when the call on the entity succeeded.
C19_Original ==
    (Done /\ Len(prev) >= 1) => (result = "OK" <=> prev[1].result = "OK")

\* The logs treated every entry that both calls reached alike: rejected by
\* the log steps in both calls or in neither.  Offline no log is asked.
LogAlike ==
    \A j \in Positions :
        (Outcome(j) # "unreached" /\ prev[1].outcome[j] # "unreached")
            => (Outcome(j) = "logfail" <=> prev[1].outcome[j] = "logfail")

\* C19 amended: when the logs treated the entries alike in both calls, the
\* call on the permuted entity succeeded exactly when the call on the entity
\* succeeded, and every entry that both calls reached passed in both or in
\* neither.
C19_Commutative ==
    (Done /\ Len(prev) >= 1 /\ LogAlike)
        => /\ result = "OK" <=> prev[1].result = "OK"
           /\ \A j \in Positions :
                 (Outcome(j) # "unreached" /\ prev[1].outcome[j] # "unreached")
                     => (Outcome(j) = "pass" <=> prev[1].outcome[j] = "pass")

\* Online, two different defective entries: both orders were rejected, each
\* with the error of the entry that came first.
C19_Witness ==
    /\ online /\ Done /\ Len(prev) = 1 /\ LogAlike
    /\ Len(Entries) = 2 /\ Entries[1] # Entries[2]
    /\ FailedAt = 1 /\ prev[1].at = 1
    /\ result = "SignatureMismatch" /\ prev[1].result = "TimeOutOfRange"

\* ------------------------------------------------------------------ C20
\* What the logs answered in a call: the resolutions, the queries and the
\* verifications of fetched records under the resolved key, in order.
LogResponses(t) == SelectSeq(t, LAMBDA ev : ev.op \in OnlineOps \ {"Lookup"})

\* C20: an online verifier that differs from an earlier one in the key
\* material of the trusted root and of the mapped TlogVerifiers only, called
\* with the same entity and given the same log responses, returned what the
\* earlier one returned after the same invocations, the resolutions of the
\* same base URLs among them.
C20_KeyIndependent ==
    (online /\ Done /\ Len(prev) = 1 /\ prev[1].fields # fields
            /\ SameAnswers(LogResponses(prev[1].trace), LogResponses(trace)))
        => (result = prev[1].result /\ trace = prev[1].trace)

\* Both verifiers accepted the entity; the second holds no key of any log,
\* neither in its trusted root nor in its mapping.
C20_Witness ==
    /\ online /\ Done /\ Len(prev) = 1 /\ Len(Entries) = 1
    /\ result = "OK" /\ prev[1].result = "OK"
    /\ trustedRoot = WithKey(AllLogs, RotatedKey)
    /\ tlogVerifiers = WithKey(tlogVerifiers, RotatedKey)
    /\ tlogVerifiers # prev[1].fields[4]
====
